---- MODULE Spec2Model ----
(***************************************************************************)
(* A model of the NetBox tool server (src/server.py): the object-type      *)
(* catalog, the module-level client handle, the start-up block and the     *)
(* tool handlers.  One action models one complete handler invocation; the  *)
(* remote REST client is the environment, whose single answer to each call *)
(* (a returned JSON value or a raised error) is chosen nondeterministically.*)
(*                                                                         *)
(* Python values are modelled as tagged records.  A Python str is a tuple  *)
(* of one-character strings, so that concatenation, comparison and         *)
(* iteration are computed rather than assumed.                             *)
(***************************************************************************)
EXTENDS Integers, Sequences, FiniteSets, TLC

VARIABLES env, phase, netbox, call, remote, outcome

vars == <<env, phase, netbox, call, remote, outcome>>

(***************************************************************************)
(* Bounds of the model.                                                    *)
(***************************************************************************)
MaxItems == 2
MaxObjectId == 10
MaxCount == 2

(***************************************************************************)
(* Python values.                                                          *)
(***************************************************************************)
None == [kind |-> "none"]
Omitted == [kind |-> "omitted"]
JInt(n) == [kind |-> "int", n |-> n]
JStr(s) == [kind |-> "str", s |-> s]
JList(elems) == [kind |-> "list", elems |-> elems]
JDict(map) == [kind |-> "dict", map |-> map]

Return(v) == [kind |-> "return", value |-> v]
Raise(e) == [kind |-> "raise", error |-> e]

\* bool(v): Python truthiness, as used by `not x` and `x or y`.
Truthy(v) ==
  CASE v.kind = "none" -> FALSE
    [] v.kind = "int" -> v.n # 0
    [] v.kind = "str" -> v.s # <<>>
    [] v.kind = "list" -> v.elems # <<>>
    [] v.kind = "dict" -> DOMAIN v.map # {}
    [] OTHER -> TRUE

\* Code points of the characters that occur in the modelled strings.
CodePoint ==
  ("-" :> 45) @@ ("/" :> 47) @@ ("0" :> 48) @@ ("1" :> 49) @@ ("2" :> 50) @@
  ("3" :> 51) @@ ("4" :> 52) @@ ("5" :> 53) @@ ("6" :> 54) @@ ("7" :> 55) @@
  ("8" :> 56) @@ ("9" :> 57) @@ ("D" :> 68) @@ ("_" :> 95) @@ ("a" :> 97) @@
  ("b" :> 98) @@ ("c" :> 99) @@ ("d" :> 100) @@ ("e" :> 101) @@ ("f" :> 102) @@
  ("g" :> 103) @@ ("h" :> 104) @@ ("i" :> 105) @@ ("j" :> 106) @@ ("k" :> 107) @@
  ("l" :> 108) @@ ("m" :> 109) @@ ("n" :> 110) @@ ("o" :> 111) @@ ("p" :> 112) @@
  ("q" :> 113) @@ ("r" :> 114) @@ ("s" :> 115) @@ ("t" :> 116) @@ ("u" :> 117) @@
  ("v" :> 118) @@ ("w" :> 119) @@ ("x" :> 120) @@ ("y" :> 121) @@ ("z" :> 122)

\* a < b on Python strs: lexicographic by code point, a proper prefix first.
RECURSIVE StrLess(_, _)
StrLess(a, b) ==
  IF b = <<>> THEN FALSE
  ELSE IF a = <<>> THEN TRUE
  ELSE IF a[1] = b[1] THEN StrLess(Tail(a), Tail(b))
  ELSE CodePoint[a[1]] < CodePoint[b[1]]

\* A variant of sorted that leaves the sequence in its given order.
sorted_unsorted(seq) == seq

\* sorted(seq) on a sequence of strs: ascending and stable.  Element j goes
\* to the position given by the number of elements ordered before it.
sorted(seq) ==
  LET n == Len(seq)
      Before(k, j) == \/ StrLess(seq[k], seq[j])
                      \/ (seq[k] = seq[j] /\ k < j)
      rank == [j \in 1..n |-> Cardinality({k \in 1..n : Before(k, j)})]
  IN [i \in 1..n |-> seq[CHOOSE j \in 1..n : rank[j] = i - 1]]

Digits == <<"0", "1", "2", "3", "4", "5", "6", "7", "8", "9">>

RECURSIVE NatToStr(_)
NatToStr(n) ==
  IF n < 10 THEN <<Digits[n + 1]>>
  ELSE NatToStr(n \div 10) \o <<Digits[(n % 10) + 1]>>

\* str(n) / f"{n}" for an int.
IntToStr(n) == IF n < 0 THEN <<"-">> \o NatToStr(0 - n) ELSE NatToStr(n)

(***************************************************************************)
(* The catalog: the items of the NETBOX_OBJECT_TYPES literal, in source    *)
(* order, as <<key, endpoint>> pairs.                                      *)
(***************************************************************************)
CatalogItems ==
    <<
       <<<<"c","a","b","l","e","s">>,
         <<"d","c","i","m","/","c","a","b","l","e","s">>>>,
       <<<<"c","o","n","s","o","l","e","-","p","o","r","t","s">>,
         <<"d","c","i","m","/","c","o","n","s","o","l","e","-","p","o","r","t","s">>>>,
       <<<<"c","o","n","s","o","l","e","-","s","e","r","v","e","r","-","p","o","r","t","s">>,
         <<"d","c","i","m","/","c","o","n","s","o","l","e","-","s","e","r","v","e","r","-","p","o","r","t","s">>>>,
       <<<<"d","e","v","i","c","e","s">>,
         <<"d","c","i","m","/","d","e","v","i","c","e","s">>>>,
       <<<<"d","e","v","i","c","e","-","b","a","y","s">>,
         <<"d","c","i","m","/","d","e","v","i","c","e","-","b","a","y","s">>>>,
       <<<<"d","e","v","i","c","e","-","r","o","l","e","s">>,
         <<"d","c","i","m","/","d","e","v","i","c","e","-","r","o","l","e","s">>>>,
       <<<<"d","e","v","i","c","e","-","t","y","p","e","s">>,
         <<"d","c","i","m","/","d","e","v","i","c","e","-","t","y","p","e","s">>>>,
       <<<<"f","r","o","n","t","-","p","o","r","t","s">>,
         <<"d","c","i","m","/","f","r","o","n","t","-","p","o","r","t","s">>>>,
       <<<<"i","n","t","e","r","f","a","c","e","s">>,
         <<"d","c","i","m","/","i","n","t","e","r","f","a","c","e","s">>>>,
       <<<<"i","n","v","e","n","t","o","r","y","-","i","t","e","m","s">>,
         <<"d","c","i","m","/","i","n","v","e","n","t","o","r","y","-","i","t","e","m","s">>>>,
       <<<<"l","o","c","a","t","i","o","n","s">>,
         <<"d","c","i","m","/","l","o","c","a","t","i","o","n","s">>>>,
       <<<<"m","a","n","u","f","a","c","t","u","r","e","r","s">>,
         <<"d","c","i","m","/","m","a","n","u","f","a","c","t","u","r","e","r","s">>>>,
       <<<<"m","o","d","u","l","e","s">>,
         <<"d","c","i","m","/","m","o","d","u","l","e","s">>>>,
       <<<<"m","o","d","u","l","e","-","b","a","y","s">>,
         <<"d","c","i","m","/","m","o","d","u","l","e","-","b","a","y","s">>>>,
       <<<<"m","o","d","u","l","e","-","t","y","p","e","s">>,
         <<"d","c","i","m","/","m","o","d","u","l","e","-","t","y","p","e","s">>>>,
       <<<<"p","l","a","t","f","o","r","m","s">>,
         <<"d","c","i","m","/","p","l","a","t","f","o","r","m","s">>>>,
       <<<<"p","o","w","e","r","-","f","e","e","d","s">>,
         <<"d","c","i","m","/","p","o","w","e","r","-","f","e","e","d","s">>>>,
       <<<<"p","o","w","e","r","-","o","u","t","l","e","t","s">>,
         <<"d","c","i","m","/","p","o","w","e","r","-","o","u","t","l","e","t","s">>>>,
       <<<<"p","o","w","e","r","-","p","a","n","e","l","s">>,
         <<"d","c","i","m","/","p","o","w","e","r","-","p","a","n","e","l","s">>>>,
       <<<<"p","o","w","e","r","-","p","o","r","t","s">>,
         <<"d","c","i","m","/","p","o","w","e","r","-","p","o","r","t","s">>>>,
       <<<<"r","a","c","k","s">>,
         <<"d","c","i","m","/","r","a","c","k","s">>>>,
       <<<<"r","a","c","k","-","r","e","s","e","r","v","a","t","i","o","n","s">>,
         <<"d","c","i","m","/","r","a","c","k","-","r","e","s","e","r","v","a","t","i","o","n","s">>>>,
       <<<<"r","a","c","k","-","r","o","l","e","s">>,
         <<"d","c","i","m","/","r","a","c","k","-","r","o","l","e","s">>>>,
       <<<<"r","e","g","i","o","n","s">>,
         <<"d","c","i","m","/","r","e","g","i","o","n","s">>>>,
       <<<<"s","i","t","e","s">>,
         <<"d","c","i","m","/","s","i","t","e","s">>>>,
       <<<<"s","i","t","e","-","g","r","o","u","p","s">>,
         <<"d","c","i","m","/","s","i","t","e","-","g","r","o","u","p","s">>>>,
       <<<<"v","i","r","t","u","a","l","-","c","h","a","s","s","i","s">>,
         <<"d","c","i","m","/","v","i","r","t","u","a","l","-","c","h","a","s","s","i","s">>>>,
       <<<<"a","s","n","s">>,
         <<"i","p","a","m","/","a","s","n","s">>>>,
       <<<<"a","s","n","-","r","a","n","g","e","s">>,
         <<"i","p","a","m","/","a","s","n","-","r","a","n","g","e","s">>>>,
       <<<<"a","g","g","r","e","g","a","t","e","s">>,
         <<"i","p","a","m","/","a","g","g","r","e","g","a","t","e","s">>>>,
       <<<<"f","h","r","p","-","g","r","o","u","p","s">>,
         <<"i","p","a","m","/","f","h","r","p","-","g","r","o","u","p","s">>>>,
       <<<<"i","p","-","a","d","d","r","e","s","s","e","s">>,
         <<"i","p","a","m","/","i","p","-","a","d","d","r","e","s","s","e","s">>>>,
       <<<<"i","p","-","r","a","n","g","e","s">>,
         <<"i","p","a","m","/","i","p","-","r","a","n","g","e","s">>>>,
       <<<<"p","r","e","f","i","x","e","s">>,
         <<"i","p","a","m","/","p","r","e","f","i","x","e","s">>>>,
       <<<<"r","i","r","s">>,
         <<"i","p","a","m","/","r","i","r","s">>>>,
       <<<<"r","o","l","e","s">>,
         <<"i","p","a","m","/","r","o","l","e","s">>>>,
       <<<<"r","o","u","t","e","-","t","a","r","g","e","t","s">>,
         <<"i","p","a","m","/","r","o","u","t","e","-","t","a","r","g","e","t","s">>>>,
       <<<<"s","e","r","v","i","c","e","s">>,
         <<"i","p","a","m","/","s","e","r","v","i","c","e","s">>>>,
       <<<<"v","l","a","n","s">>,
         <<"i","p","a","m","/","v","l","a","n","s">>>>,
       <<<<"v","l","a","n","-","g","r","o","u","p","s">>,
         <<"i","p","a","m","/","v","l","a","n","-","g","r","o","u","p","s">>>>,
       <<<<"v","r","f","s">>,
         <<"i","p","a","m","/","v","r","f","s">>>>,
       <<<<"c","i","r","c","u","i","t","s">>,
         <<"c","i","r","c","u","i","t","s","/","c","i","r","c","u","i","t","s">>>>,
       <<<<"c","i","r","c","u","i","t","-","t","y","p","e","s">>,
         <<"c","i","r","c","u","i","t","s","/","c","i","r","c","u","i","t","-","t","y","p","e","s">>>>,
       <<<<"c","i","r","c","u","i","t","-","t","e","r","m","i","n","a","t","i","o","n","s">>,
         <<"c","i","r","c","u","i","t","s","/","c","i","r","c","u","i","t","-","t","e","r","m","i","n","a","t","i","o","n","s">>>>,
       <<<<"p","r","o","v","i","d","e","r","s">>,
         <<"c","i","r","c","u","i","t","s","/","p","r","o","v","i","d","e","r","s">>>>,
       <<<<"p","r","o","v","i","d","e","r","-","n","e","t","w","o","r","k","s">>,
         <<"c","i","r","c","u","i","t","s","/","p","r","o","v","i","d","e","r","-","n","e","t","w","o","r","k","s">>>>,
       <<<<"c","l","u","s","t","e","r","s">>,
         <<"v","i","r","t","u","a","l","i","z","a","t","i","o","n","/","c","l","u","s","t","e","r","s">>>>,
       <<<<"c","l","u","s","t","e","r","-","g","r","o","u","p","s">>,
         <<"v","i","r","t","u","a","l","i","z","a","t","i","o","n","/","c","l","u","s","t","e","r","-","g","r","o","u","p","s">>>>,
       <<<<"c","l","u","s","t","e","r","-","t","y","p","e","s">>,
         <<"v","i","r","t","u","a","l","i","z","a","t","i","o","n","/","c","l","u","s","t","e","r","-","t","y","p","e","s">>>>,
       <<<<"v","i","r","t","u","a","l","-","m","a","c","h","i","n","e","s">>,
         <<"v","i","r","t","u","a","l","i","z","a","t","i","o","n","/","v","i","r","t","u","a","l","-","m","a","c","h","i","n","e","s">>>>,
       <<<<"v","m","-","i","n","t","e","r","f","a","c","e","s">>,
         <<"v","i","r","t","u","a","l","i","z","a","t","i","o","n","/","i","n","t","e","r","f","a","c","e","s">>>>,
       <<<<"t","e","n","a","n","t","s">>,
         <<"t","e","n","a","n","c","y","/","t","e","n","a","n","t","s">>>>,
       <<<<"t","e","n","a","n","t","-","g","r","o","u","p","s">>,
         <<"t","e","n","a","n","c","y","/","t","e","n","a","n","t","-","g","r","o","u","p","s">>>>,
       <<<<"c","o","n","t","a","c","t","s">>,
         <<"t","e","n","a","n","c","y","/","c","o","n","t","a","c","t","s">>>>,
       <<<<"c","o","n","t","a","c","t","-","g","r","o","u","p","s">>,
         <<"t","e","n","a","n","c","y","/","c","o","n","t","a","c","t","-","g","r","o","u","p","s">>>>,
       <<<<"c","o","n","t","a","c","t","-","r","o","l","e","s">>,
         <<"t","e","n","a","n","c","y","/","c","o","n","t","a","c","t","-","r","o","l","e","s">>>>,
       <<<<"i","k","e","-","p","o","l","i","c","i","e","s">>,
         <<"v","p","n","/","i","k","e","-","p","o","l","i","c","i","e","s">>>>,
       <<<<"i","k","e","-","p","r","o","p","o","s","a","l","s">>,
         <<"v","p","n","/","i","k","e","-","p","r","o","p","o","s","a","l","s">>>>,
       <<<<"i","p","s","e","c","-","p","o","l","i","c","i","e","s">>,
         <<"v","p","n","/","i","p","s","e","c","-","p","o","l","i","c","i","e","s">>>>,
       <<<<"i","p","s","e","c","-","p","r","o","f","i","l","e","s">>,
         <<"v","p","n","/","i","p","s","e","c","-","p","r","o","f","i","l","e","s">>>>,
       <<<<"i","p","s","e","c","-","p","r","o","p","o","s","a","l","s">>,
         <<"v","p","n","/","i","p","s","e","c","-","p","r","o","p","o","s","a","l","s">>>>,
       <<<<"l","2","v","p","n","s">>,
         <<"v","p","n","/","l","2","v","p","n","s">>>>,
       <<<<"t","u","n","n","e","l","s">>,
         <<"v","p","n","/","t","u","n","n","e","l","s">>>>,
       <<<<"t","u","n","n","e","l","-","g","r","o","u","p","s">>,
         <<"v","p","n","/","t","u","n","n","e","l","-","g","r","o","u","p","s">>>>,
       <<<<"w","i","r","e","l","e","s","s","-","l","a","n","s">>,
         <<"w","i","r","e","l","e","s","s","/","w","i","r","e","l","e","s","s","-","l","a","n","s">>>>,
       <<<<"w","i","r","e","l","e","s","s","-","l","a","n","-","g","r","o","u","p","s">>,
         <<"w","i","r","e","l","e","s","s","/","w","i","r","e","l","e","s","s","-","l","a","n","-","g","r","o","u","p","s">>>>,
       <<<<"w","i","r","e","l","e","s","s","-","l","i","n","k","s">>,
         <<"w","i","r","e","l","e","s","s","/","w","i","r","e","l","e","s","s","-","l","i","n","k","s">>>>,
       <<<<"c","u","s","t","o","m","-","l","i","n","k","s">>,
         <<"e","x","t","r","a","s","/","c","u","s","t","o","m","-","l","i","n","k","s">>>>,
       <<<<"c","u","s","t","o","m","-","f","i","e","l","d","s">>,
         <<"e","x","t","r","a","s","/","c","u","s","t","o","m","-","f","i","e","l","d","s">>>>,
       <<<<"t","a","g","s">>,
         <<"e","x","t","r","a","s","/","t","a","g","s">>>>,
       <<<<"e","x","p","o","r","t","-","t","e","m","p","l","a","t","e","s">>,
         <<"e","x","t","r","a","s","/","e","x","p","o","r","t","-","t","e","m","p","l","a","t","e","s">>>>,
       <<<<"i","m","a","g","e","s","-","a","t","t","a","c","h","m","e","n","t","s">>,
         <<"e","x","t","r","a","s","/","i","m","a","g","e","s","-","a","t","t","a","c","h","m","e","n","t","s">>>>,
       <<<<"s","a","v","e","-","f","i","l","t","e","r","s">>,
         <<"e","x","t","r","a","s","/","s","a","v","e","-","f","i","l","t","e","r","s">>>>,
       <<<<"c","u","s","t","o","m","-","f","i","e","l","d","-","c","h","o","i","c","e","s">>,
         <<"e","x","t","r","a","s","/","c","u","s","t","o","m","-","f","i","e","l","d","-","c","h","o","i","c","e","s">>>>,
       <<<<"w","e","b","h","o","o","k","s">>,
         <<"e","x","t","r","a","s","/","w","e","b","h","o","o","k","s">>>>,
       <<<<"e","v","e","n","t","-","r","u","l","e","s">>,
         <<"e","x","t","r","a","s","/","e","v","e","n","t","-","r","u","l","e","s">>>>,
       <<<<"o","b","j","e","c","t","-","t","y","p","e","s">>,
         <<"e","x","t","r","a","s","/","o","b","j","e","c","t","-","t","y","p","e","s">>>>,
       <<<<"d","a","t","a","-","s","o","u","r","c","e","s">>,
         <<"c","o","r","e","/","d","a","t","a","-","s","o","u","r","c","e","s">>>>,
       <<<<"c","h","a","n","g","e","l","o","g","s">>,
         <<"c","o","r","e","/","o","b","j","e","c","t","-","c","h","a","n","g","e","s">>>>,
       <<<<"j","o","b","s">>,
         <<"c","o","r","e","/","j","o","b","s">>>>
    >>

\* NETBOX_OBJECT_TYPES.keys(): the keys in insertion order.
CatalogKeys == [i \in 1..Len(CatalogItems) |-> CatalogItems[i][1]]

\* The dict itself: a later item with an equal key overrides an earlier one.
NETBOX_OBJECT_TYPES ==
  [k \in {CatalogItems[i][1] : i \in 1..Len(CatalogItems)} |->
     LET last == CHOOSE i \in 1..Len(CatalogItems) :
                   /\ CatalogItems[i][1] = k
                   /\ \A j \in 1..Len(CatalogItems) : CatalogItems[j][1] = k => j <= i
     IN CatalogItems[last][2]]

(***************************************************************************)
(* str literals of the source and of the modelled inputs.                  *)
(***************************************************************************)
STR_count == <<"c","o","u","n","t">>
STR_id == <<"i","d">>
STR_name == <<"n","a","m","e">>
STR_object_types == <<"o","b","j","e","c","t","_","t","y","p","e","s">>
STR_description == <<"d","e","s","c","r","i","p","t","i","o","n">>
STR_label == <<"l","a","b","e","l">>
STR_results == <<"r","e","s","u","l","t","s">>
STR_site_id == <<"s","i","t","e","_","i","d">>
STR_action == <<"a","c","t","i","o","n">>
STR_site == <<"s","i","t","e">>
STR_create == <<"c","r","e","a","t","e">>
STR_r1 == <<"r","1">>
STR_changelog_endpoint ==
  <<"c","o","r","e","/","o","b","j","e","c","t","-","c","h","a","n","g","e","s">>

\* valid_types: one "- <key>" line per key of the catalog, in sorted order;
\* the source joins the lines with "\n".
valid_types ==
  LET keys == sorted(CatalogKeys)
  IN [i \in 1..Len(keys) |-> <<"-", " ">> \o keys[i]]

\* ValueError(f"Invalid object_type. Must be one of:\n{valid_types}")
InvalidObjectType ==
  [type |-> "ValueError",
   head |-> "Invalid object_type. Must be one of:",
   lines |-> valid_types]

\* v[key] with a str key.
Subscript(v, key) ==
  IF v.kind = "dict"
    THEN IF key \in DOMAIN v.map
           THEN Return(v.map[key])
           ELSE Raise([type |-> "KeyError", key |-> key])
    ELSE Raise([type |-> "TypeError"])

\* len(v)
PyLen(v) ==
  CASE v.kind = "list" -> Return(Len(v.elems))
    [] v.kind = "str" -> Return(Len(v.s))
    [] v.kind = "dict" -> Return(Cardinality(DOMAIN v.map))
    [] OTHER -> Raise([type |-> "TypeError"])

RECURSIVE SeqOfSet(_)
SeqOfSet(S) ==
  IF S = {} THEN <<>>
  ELSE LET x == CHOOSE y \in S : TRUE IN <<x>> \o SeqOfSet(S \ {x})

\* iter(v): the items a `for item in v` visits.  A dict yields its keys (all
\* strs; their order does not influence any handler), a str its characters.
Iterate(v) ==
  CASE v.kind = "list" -> Return(v.elems)
    [] v.kind = "dict" ->
         LET keys == SeqOfSet(DOMAIN v.map)
         IN Return([i \in 1..Len(keys) |-> JStr(keys[i])])
    [] v.kind = "str" -> Return([i \in 1..Len(v.s) |-> JStr(<<v.s[i]>>)])
    [] OTHER -> Raise([type |-> "TypeError"])

\* One remote call of an invocation together with the client's answer.
Exchange(request, answer) == [request |-> request, answer |-> answer]

Done(exchanges, result) == [remote |-> exchanges, outcome |-> result]

(***************************************************************************)
(* The client handle.  `netbox.m(...)` on the unassigned handle (None)     *)
(* raises AttributeError before any request is issued; otherwise the       *)
(* request is issued once and the client's answer is what the call yields. *)
(***************************************************************************)
\* A variant of Invoke that issues the request a second time.
Invoke_retrying(request, answer) ==
  IF netbox = None
    THEN [exchanges |-> <<>>, answer |-> Raise([type |-> "AttributeError"])]
    ELSE [exchanges |-> <<Exchange(request, answer), Exchange(request, answer)>>,
          answer |-> answer]

Invoke(request, answer) ==
  IF netbox = None
    THEN [exchanges |-> <<>>, answer |-> Raise([type |-> "AttributeError"])]
    ELSE [exchanges |-> <<Exchange(request, answer)>>, answer |-> answer]

(***************************************************************************)
(* The tool handlers, as functions of their arguments and of the client's  *)
(* answer to the one call they make.                                       *)
(***************************************************************************)
\* A variant of get_count_objects without the try/except around the call.
get_count_objects_propagating(object_type, filters, answer) ==
  IF object_type \notin DOMAIN NETBOX_OBJECT_TYPES
    THEN Done(<<>>, Raise(InvalidObjectType))
    ELSE LET endpoint == NETBOX_OBJECT_TYPES[object_type]
             c == Invoke([method |-> "get_count", endpoint |-> endpoint,
                          params |-> filters], answer)
         IN IF c.answer.kind = "raise"
              THEN Done(c.exchanges, c.answer)
              ELSE Done(c.exchanges, Subscript(c.answer.value, STR_count))

get_count_objects(object_type, filters, answer) ==
  IF object_type \notin DOMAIN NETBOX_OBJECT_TYPES
    THEN Done(<<>>, Raise(InvalidObjectType))
    ELSE LET endpoint == NETBOX_OBJECT_TYPES[object_type]
             c == Invoke([method |-> "get_count", endpoint |-> endpoint,
                          params |-> filters], answer)
         IN IF c.answer.kind = "raise"
              THEN Done(c.exchanges, Return(JInt(0)))
              ELSE Done(c.exchanges, Subscript(c.answer.value, STR_count))

\* A variant of get_objects that passes `filters or {}` to the client.
get_objects_defaulting(object_type, filters, answer) ==
  IF object_type \notin DOMAIN NETBOX_OBJECT_TYPES
    THEN Done(<<>>, Raise(InvalidObjectType))
    ELSE LET endpoint == NETBOX_OBJECT_TYPES[object_type]
             c == Invoke([method |-> "get", endpoint |-> endpoint,
                          params |-> IF Truthy(filters) THEN filters
                                     ELSE JDict(<<>>)], answer)
         IN Done(c.exchanges, c.answer)

get_objects(object_type, filters, answer) ==
  IF object_type \notin DOMAIN NETBOX_OBJECT_TYPES
    THEN Done(<<>>, Raise(InvalidObjectType))
    ELSE LET endpoint == NETBOX_OBJECT_TYPES[object_type]
             c == Invoke([method |-> "get", endpoint |-> endpoint,
                          params |-> filters], answer)
         IN Done(c.exchanges, c.answer)

\* A variant of get_object_by_id that joins path and id without the "/".
get_object_by_id_unseparated(object_type, object_id, answer) ==
  IF object_type \notin DOMAIN NETBOX_OBJECT_TYPES
    THEN Done(<<>>, Raise(InvalidObjectType))
    ELSE LET endpoint == NETBOX_OBJECT_TYPES[object_type]
                           \o IntToStr(object_id)
             c == Invoke([method |-> "get", endpoint |-> endpoint,
                          params |-> Omitted], answer)
         IN Done(c.exchanges, c.answer)

get_object_by_id(object_type, object_id, answer) ==
  IF object_type \notin DOMAIN NETBOX_OBJECT_TYPES
    THEN Done(<<>>, Raise(InvalidObjectType))
    ELSE LET endpoint == NETBOX_OBJECT_TYPES[object_type] \o <<"/">>
                           \o IntToStr(object_id)
             c == Invoke([method |-> "get", endpoint |-> endpoint,
                          params |-> Omitted], answer)
         IN Done(c.exchanges, c.answer)

\* v.get(key): a lookup that yields None instead of raising KeyError.
SubscriptOrNone(v, key) ==
  IF v.kind = "dict"
    THEN IF key \in DOMAIN v.map THEN Return(v.map[key]) ELSE Return(None)
    ELSE Raise([type |-> "TypeError"])

\* A variant of ProjectItem that reads the fields with item.get(...).
ProjectItem_lenient(item) ==
  LET id == SubscriptOrNone(item, STR_id)
      name == SubscriptOrNone(item, STR_name)
      object_types == SubscriptOrNone(item, STR_object_types)
      description == SubscriptOrNone(item, STR_description)
  IN CASE id.kind = "raise" -> id
       [] OTHER -> Return(JDict((STR_id :> id.value) @@ (STR_name :> name.value)
                                @@ (STR_object_types :> object_types.value)
                                @@ (STR_description :> description.value)))

\* The dict built for one item of the comprehension; the first failing
\* subscript, in evaluation order, is the error raised.
ProjectItem(item) ==
  LET id == Subscript(item, STR_id)
      name == Subscript(item, STR_name)
      object_types == Subscript(item, STR_object_types)
      description == Subscript(item, STR_description)
  IN CASE id.kind = "raise" -> id
       [] name.kind = "raise" -> name
       [] object_types.kind = "raise" -> object_types
       [] description.kind = "raise" -> description
       [] OTHER -> Return(JDict((STR_id :> id.value) @@ (STR_name :> name.value)
                                @@ (STR_object_types :> object_types.value)
                                @@ (STR_description :> description.value)))

\* The list comprehension over the items, left to right.
RECURSIVE ProjectItems(_)
ProjectItems(items) ==
  IF items = <<>> THEN Return(<<>>)
  ELSE LET first == ProjectItem(items[1])
       IN IF first.kind = "raise" THEN first
          ELSE LET rest == ProjectItems(Tail(items))
               IN IF rest.kind = "raise" THEN rest
                  ELSE Return(<<first.value>> \o rest.value)

get_custom_fields(object_type, filters, answer) ==
  IF object_type \notin DOMAIN NETBOX_OBJECT_TYPES
    THEN Done(<<>>, Raise(InvalidObjectType))
    ELSE LET endpoint == NETBOX_OBJECT_TYPES[object_type]
             c == Invoke([method |-> "get", endpoint |-> endpoint,
                          params |-> filters], answer)
         IN IF c.answer.kind = "raise"
              THEN Done(c.exchanges, c.answer)
              ELSE LET items == Iterate(c.answer.value)
                       custom_fields == IF items.kind = "raise" THEN items
                                        ELSE ProjectItems(items.value)
                   IN IF custom_fields.kind = "raise"
                        THEN Done(c.exchanges, Return(None))
                        ELSE Done(c.exchanges,
                                  Return(JList(custom_fields.value)))

\* A variant of get_changelogs that passes `filters` as given.
get_changelogs_unnormalised(filters, answer) ==
  LET endpoint == STR_changelog_endpoint
      c == Invoke([method |-> "get", endpoint |-> endpoint,
                   params |-> filters], answer)
  IN IF c.answer.kind = "raise"
       THEN Done(c.exchanges, c.answer)
       ELSE LET response == c.answer.value
                n == PyLen(response)
            IN IF n.kind = "raise" THEN Done(c.exchanges, n)
               ELSE IF ~Truthy(response)
                      THEN Done(c.exchanges, Return(JList(<<>>)))
                      ELSE Done(c.exchanges, Return(response))

get_changelogs(filters, answer) ==
  LET endpoint == STR_changelog_endpoint
      params == IF Truthy(filters) THEN filters ELSE JDict(<<>>)
      c == Invoke([method |-> "get", endpoint |-> endpoint,
                   params |-> params], answer)
  IN IF c.answer.kind = "raise"
       THEN Done(c.exchanges, c.answer)
       ELSE LET response == c.answer.value
                n == PyLen(response)
            IN IF n.kind = "raise" THEN Done(c.exchanges, n)
               ELSE IF ~Truthy(response)
                      THEN Done(c.exchanges, Return(JList(<<>>)))
                      ELSE Done(c.exchanges, Return(response))

create_object(object_type, data, answer) ==
  IF object_type \notin DOMAIN NETBOX_OBJECT_TYPES
    THEN Done(<<>>, Raise(InvalidObjectType))
    ELSE LET endpoint == NETBOX_OBJECT_TYPES[object_type]
             c == Invoke([method |-> "create", endpoint |-> endpoint,
                          data |-> data], answer)
         IN Done(c.exchanges, c.answer)

\* A variant of update_object that appends the id to the endpoint.
update_object_id_in_path(object_type, object_id, data, answer) ==
  IF object_type \notin DOMAIN NETBOX_OBJECT_TYPES
    THEN Done(<<>>, Raise(InvalidObjectType))
    ELSE LET endpoint == NETBOX_OBJECT_TYPES[object_type] \o <<"/">>
                           \o IntToStr(object_id)
             c == Invoke([method |-> "update", endpoint |-> endpoint,
                          id |-> object_id, data |-> data], answer)
         IN Done(c.exchanges, c.answer)

update_object(object_type, object_id, data, answer) ==
  IF object_type \notin DOMAIN NETBOX_OBJECT_TYPES
    THEN Done(<<>>, Raise(InvalidObjectType))
    ELSE LET endpoint == NETBOX_OBJECT_TYPES[object_type]
             c == Invoke([method |-> "update", endpoint |-> endpoint,
                          id |-> object_id, data |-> data], answer)
         IN Done(c.exchanges, c.answer)

\* A variant of delete_object that catches the client's error and returns None.
delete_object_swallowing(object_type, object_id, answer) ==
  IF object_type \notin DOMAIN NETBOX_OBJECT_TYPES
    THEN Done(<<>>, Raise(InvalidObjectType))
    ELSE LET endpoint == NETBOX_OBJECT_TYPES[object_type]
             c == Invoke([method |-> "delete", endpoint |-> endpoint,
                          id |-> object_id], answer)
         IN IF c.answer.kind = "raise"
              THEN Done(c.exchanges, Return(None))
              ELSE Done(c.exchanges, c.answer)

delete_object(object_type, object_id, answer) ==
  IF object_type \notin DOMAIN NETBOX_OBJECT_TYPES
    THEN Done(<<>>, Raise(InvalidObjectType))
    ELSE LET endpoint == NETBOX_OBJECT_TYPES[object_type]
             c == Invoke([method |-> "delete", endpoint |-> endpoint,
                          id |-> object_id], answer)
         IN Done(c.exchanges, c.answer)

(***************************************************************************)
(* datetime values (aware, UTC) as records of their fields.                *)
(***************************************************************************)
RECURSIVE ZeroPad(_, _)
ZeroPad(s, width) == IF Len(s) >= width THEN s ELSE ZeroPad(<<"0">> \o s, width)

\* datetime.isoformat() of an aware UTC datetime: YYYY-MM-DDTHH:MM:SS+00:00,
\* with .ffffff after the seconds when the microsecond field is not 0.
isoformat(t) ==
  ZeroPad(NatToStr(t.year), 4) \o <<"-">> \o ZeroPad(NatToStr(t.month), 2)
    \o <<"-">> \o ZeroPad(NatToStr(t.day), 2) \o <<"T">>
    \o ZeroPad(NatToStr(t.hour), 2) \o <<":">> \o ZeroPad(NatToStr(t.minute), 2)
    \o <<":">> \o ZeroPad(NatToStr(t.second), 2)
    \o (IF t.microsecond = 0 THEN <<>>
        ELSE <<".">> \o ZeroPad(NatToStr(t.microsecond), 6))
    \o <<"+", "0", "0", ":", "0", "0">>

\* t.replace(hour=0, minute=0, second=0, microsecond=0)
replace_midnight(t) ==
  [t EXCEPT !.hour = 0, !.minute = 0, !.second = 0, !.microsecond = 0]

\* get_current_time_iso reads the clock twice; `first` and `second` are the
\* two readings of datetime.now(timezone.utc).
get_current_time_iso(first, second) ==
  LET current_time_0 == isoformat(first)
      current_time == isoformat(replace_midnight(second))
  IN Done(<<>>, Return(JStr(current_time)))

(***************************************************************************)
(* Inputs: the arguments callers pass and the answers the client gives.    *)
(***************************************************************************)
\* The names the get_objects docstring lists under "Valid object_type values".
DocumentedObjectTypes ==
  {
    <<"c","a","b","l","e","s">>,
    <<"c","o","n","s","o","l","e","-","p","o","r","t","s">>,
    <<"c","o","n","s","o","l","e","-","s","e","r","v","e","r","-","p","o","r","t","s">>,
    <<"d","e","v","i","c","e","s">>,
    <<"d","e","v","i","c","e","-","b","a","y","s">>,
    <<"d","e","v","i","c","e","-","r","o","l","e","s">>,
    <<"d","e","v","i","c","e","-","t","y","p","e","s">>,
    <<"f","r","o","n","t","-","p","o","r","t","s">>,
    <<"i","n","t","e","r","f","a","c","e","s">>,
    <<"i","n","v","e","n","t","o","r","y","-","i","t","e","m","s">>,
    <<"l","o","c","a","t","i","o","n","s">>,
    <<"m","a","n","u","f","a","c","t","u","r","e","r","s">>,
    <<"m","o","d","u","l","e","s">>,
    <<"m","o","d","u","l","e","-","b","a","y","s">>,
    <<"m","o","d","u","l","e","-","t","y","p","e","s">>,
    <<"p","l","a","t","f","o","r","m","s">>,
    <<"p","o","w","e","r","-","f","e","e","d","s">>,
    <<"p","o","w","e","r","-","o","u","t","l","e","t","s">>,
    <<"p","o","w","e","r","-","p","a","n","e","l","s">>,
    <<"p","o","w","e","r","-","p","o","r","t","s">>,
    <<"r","a","c","k","s">>,
    <<"r","a","c","k","-","r","e","s","e","r","v","a","t","i","o","n","s">>,
    <<"r","a","c","k","-","r","o","l","e","s">>,
    <<"r","e","g","i","o","n","s">>,
    <<"s","i","t","e","s">>,
    <<"s","i","t","e","-","g","r","o","u","p","s">>,
    <<"v","i","r","t","u","a","l","-","c","h","a","s","s","i","s">>,
    <<"a","s","n","s">>,
    <<"a","s","n","-","r","a","n","g","e","s">>,
    <<"a","g","g","r","e","g","a","t","e","s">>,
    <<"f","h","r","p","-","g","r","o","u","p","s">>,
    <<"i","p","-","a","d","d","r","e","s","s","e","s">>,
    <<"i","p","-","r","a","n","g","e","s">>,
    <<"p","r","e","f","i","x","e","s">>,
    <<"r","i","r","s">>,
    <<"r","o","l","e","s">>,
    <<"r","o","u","t","e","-","t","a","r","g","e","t","s">>,
    <<"s","e","r","v","i","c","e","s">>,
    <<"v","l","a","n","s">>,
    <<"v","l","a","n","-","g","r","o","u","p","s">>,
    <<"v","r","f","s">>,
    <<"c","i","r","c","u","i","t","s">>,
    <<"c","i","r","c","u","i","t","-","t","y","p","e","s">>,
    <<"c","i","r","c","u","i","t","-","t","e","r","m","i","n","a","t","i","o","n","s">>,
    <<"p","r","o","v","i","d","e","r","s">>,
    <<"p","r","o","v","i","d","e","r","-","n","e","t","w","o","r","k","s">>,
    <<"c","l","u","s","t","e","r","s">>,
    <<"c","l","u","s","t","e","r","-","g","r","o","u","p","s">>,
    <<"c","l","u","s","t","e","r","-","t","y","p","e","s">>,
    <<"v","i","r","t","u","a","l","-","m","a","c","h","i","n","e","s">>,
    <<"v","m","-","i","n","t","e","r","f","a","c","e","s">>,
    <<"t","e","n","a","n","t","s">>,
    <<"t","e","n","a","n","t","-","g","r","o","u","p","s">>,
    <<"c","o","n","t","a","c","t","s">>,
    <<"c","o","n","t","a","c","t","-","g","r","o","u","p","s">>,
    <<"c","o","n","t","a","c","t","-","r","o","l","e","s">>,
    <<"i","k","e","-","p","o","l","i","c","i","e","s">>,
    <<"i","k","e","-","p","r","o","p","o","s","a","l","s">>,
    <<"i","p","s","e","c","-","p","o","l","i","c","i","e","s">>,
    <<"i","p","s","e","c","-","p","r","o","f","i","l","e","s">>,
    <<"i","p","s","e","c","-","p","r","o","p","o","s","a","l","s">>,
    <<"l","2","v","p","n","s">>,
    <<"t","u","n","n","e","l","s">>,
    <<"t","u","n","n","e","l","-","g","r","o","u","p","s">>,
    <<"w","i","r","e","l","e","s","s","-","l","a","n","s">>,
    <<"w","i","r","e","l","e","s","s","-","l","a","n","-","g","r","o","u","p","s">>,
    <<"w","i","r","e","l","e","s","s","-","l","i","n","k","s">>,
    <<"c","u","s","t","o","m","-","l","i","n","k","s">>,
    <<"c","u","s","t","o","m","-","f","i","e","l","d","s">>,
    <<"t","a","g","s">>,
    <<"e","x","p","o","r","t","-","t","e","m","p","l","a","t","e","s">>,
    <<"i","m","a","g","e","s","-","a","t","t","a","c","h","m","e","n","t","s">>,
    <<"s","a","v","e","-","f","i","l","t","e","r","s">>,
    <<"c","u","s","t","o","m","-","f","i","e","l","d","-","c","h","o","i","c","e","s">>,
    <<"w","e","b","h","o","o","k","s">>,
    <<"e","v","e","n","t","-","r","u","l","e","s">>,
    <<"d","a","t","a","-","s","o","u","r","c","e","s">>,
    <<"c","h","a","n","g","e","-","l","o","g","s">>,
    <<"j","o","b","s">>
  }

InvalidObjectTypes ==
  { <<>>,
    <<"c","h","a","n","g","e","-","l","o","g","s">>,
    <<"D","e","v","i","c","e","s">>,
    <<"d","c","i","m","/","d","e","v","i","c","e","s">> }

ObjectTypes ==
  DOMAIN NETBOX_OBJECT_TYPES \cup DocumentedObjectTypes \cup InvalidObjectTypes

FilterValues ==
  { None,
    JDict(<<>>),
    JDict(STR_site_id :> JInt(5)),
    JDict((STR_action :> JStr(STR_create)) @@ (STR_site_id :> JInt(0))) }

ObjectIds == (0..MaxObjectId) \cup {-1, 42}

DataValues ==
  { JDict(<<>>),
    JDict((STR_name :> JStr(STR_r1)) @@ (STR_site :> JInt(1))),
    JDict(STR_description :> JStr(<<>>)) }

RemoteErrors == { [type |-> "ConnectionError"], [type |-> "HTTPError"] }

CustomFieldPlain ==
  JDict((STR_id :> JInt(1)) @@ (STR_name :> JStr(STR_site))
        @@ (STR_object_types :> JList(<<JStr(STR_r1)>>))
        @@ (STR_description :> JStr(<<>>)))

CustomFieldLabelled ==
  JDict((STR_id :> JInt(2)) @@ (STR_name :> JStr(STR_name))
        @@ (STR_object_types :> JList(<<>>))
        @@ (STR_description :> JStr(STR_description))
        @@ (STR_label :> JStr(STR_label)))

CustomFieldNoDescription ==
  JDict((STR_id :> JInt(3)) @@ (STR_name :> JStr(STR_r1))
        @@ (STR_object_types :> JList(<<>>)))

ItemValues ==
  { CustomFieldPlain, CustomFieldLabelled, CustomFieldNoDescription, JInt(1) }

ItemLists == UNION { [1..n -> ItemValues] : n \in 0..MaxItems }

GetResponses ==
  { JList(l) : l \in ItemLists }
    \cup { None, JInt(MaxCount), JStr(<<>>), JStr(STR_r1), JDict(<<>>),
           JDict(STR_count :> JInt(1)), CustomFieldPlain }

CountResponses ==
  { JDict((STR_count :> JInt(n)) @@ (STR_results :> JList(<<>>))) :
      n \in 0..MaxCount }
    \cup { JDict(STR_count :> None), JDict(STR_results :> JList(<<>>)),
           JDict(<<>>), None, JList(<<>>), JInt(MaxCount) }

WriteResponses ==
  { None, JDict((STR_id :> JInt(MaxObjectId)) @@ (STR_name :> JStr(STR_r1))) }

Answers(responses) ==
  { Return(v) : v \in responses } \cup { Raise(e) : e \in RemoteErrors }

\* Readings of the UTC clock.
Instants ==
  [year : {2026}, month : {11}, day : {3, 4}, hour : {0, 13, 23},
   minute : {0, 59}, second : {0, 7}, microsecond : {0, 250}]

InstantFields(t) ==
  <<t.year, t.month, t.day, t.hour, t.minute, t.second, t.microsecond>>

\* The clock does not run backwards: reading b is not earlier than reading a.
NotEarlier(b, a) ==
  LET x == InstantFields(a)
      y == InstantFields(b)
  IN \/ x = y
     \/ \E i \in 1..7 : /\ \A j \in 1..(i - 1) : x[j] = y[j]
                        /\ x[i] < y[i]

EnvValues == { None, JStr(<<>>), JStr(STR_r1) }

(***************************************************************************)
(* The state machine.                                                      *)
(***************************************************************************)
Init ==
  /\ env \in [NETBOX_URL : EnvValues, NETBOX_TOKEN : EnvValues]
  /\ phase = "loaded"
  /\ netbox = None
  /\ call = [op |-> "none"]
  /\ remote = <<>>
  /\ outcome = [kind |-> "none"]

\* A variant of the __main__ block that tests NETBOX_URL only.
Main_token_unchecked ==
  /\ phase = "loaded"
  /\ LET netbox_url == env.NETBOX_URL
         netbox_token == env.NETBOX_TOKEN
     IN IF ~Truthy(netbox_url)
          THEN /\ phase' = "failed"
               /\ outcome' = Raise([type |-> "ValueError"])
               /\ UNCHANGED netbox
          ELSE /\ netbox' = [kind |-> "client", url |-> netbox_url,
                             token |-> netbox_token]
               /\ phase' = "serving"
               /\ UNCHANGED outcome
  /\ UNCHANGED <<env, call, remote>>

\* The __main__ block: read the two settings, fail if either is missing or
\* empty, otherwise create the client and start serving.
Main ==
  /\ phase = "loaded"
  /\ LET netbox_url == env.NETBOX_URL
         netbox_token == env.NETBOX_TOKEN
     IN IF ~Truthy(netbox_url) \/ ~Truthy(netbox_token)
          THEN /\ phase' = "failed"
               /\ outcome' = Raise([type |-> "ValueError"])
               /\ UNCHANGED netbox
          ELSE /\ netbox' = [kind |-> "client", url |-> netbox_url,
                             token |-> netbox_token]
               /\ phase' = "serving"
               /\ UNCHANGED outcome
  /\ UNCHANGED <<env, call, remote>>

\* The server is running and no tool call is in progress.
Idle == phase = "serving" /\ call.op = "none"

\* mcp.run: the result of the finished call is delivered (returned value or
\* error) and the server waits for the next tool call.
Reply ==
  /\ phase = "serving"
  /\ call.op # "none"
  /\ call' = [op |-> "none"]
  /\ remote' = <<>>
  /\ outcome' = [kind |-> "none"]
  /\ UNCHANGED <<env, phase, netbox>>

Served(invocation, done) ==
  /\ call' = invocation
  /\ remote' = done.remote
  /\ outcome' = done.outcome
  /\ UNCHANGED <<env, phase, netbox>>

Call_get_count_objects ==
  /\ Idle
  /\ \E object_type \in ObjectTypes, filters \in FilterValues,
        answer \in Answers(CountResponses) :
       Served([op |-> "get_count_objects", object_type |-> object_type,
               filters |-> filters],
              get_count_objects(object_type, filters, answer))

Call_get_objects ==
  /\ Idle
  /\ \E object_type \in ObjectTypes, filters \in FilterValues,
        answer \in Answers(GetResponses) :
       Served([op |-> "get_objects", object_type |-> object_type,
               filters |-> filters],
              get_objects(object_type, filters, answer))

Call_get_object_by_id ==
  /\ Idle
  /\ \E object_type \in ObjectTypes, object_id \in ObjectIds,
        answer \in Answers(GetResponses) :
       Served([op |-> "get_object_by_id", object_type |-> object_type,
               object_id |-> object_id],
              get_object_by_id(object_type, object_id, answer))

Call_get_custom_fields ==
  /\ Idle
  /\ \E object_type \in ObjectTypes, filters \in FilterValues,
        answer \in Answers(GetResponses) :
       Served([op |-> "get_custom_fields", object_type |-> object_type,
               filters |-> filters],
              get_custom_fields(object_type, filters, answer))

Call_get_changelogs ==
  /\ Idle
  /\ \E filters \in FilterValues, answer \in Answers(GetResponses) :
       Served([op |-> "get_changelogs", filters |-> filters],
              get_changelogs(filters, answer))

Call_create_object ==
  /\ Idle
  /\ \E object_type \in ObjectTypes, data \in DataValues,
        answer \in Answers(WriteResponses) :
       Served([op |-> "create_object", object_type |-> object_type,
               data |-> data],
              create_object(object_type, data, answer))

Call_update_object ==
  /\ Idle
  /\ \E object_type \in ObjectTypes, object_id \in ObjectIds,
        data \in DataValues, answer \in Answers(WriteResponses) :
       Served([op |-> "update_object", object_type |-> object_type,
               object_id |-> object_id, data |-> data],
              update_object(object_type, object_id, data, answer))

Call_delete_object ==
  /\ Idle
  /\ \E object_type \in ObjectTypes, object_id \in ObjectIds,
        answer \in Answers(WriteResponses) :
       Served([op |-> "delete_object", object_type |-> object_type,
               object_id |-> object_id],
              delete_object(object_type, object_id, answer))

Call_get_current_time_iso ==
  /\ Idle
  /\ \E first \in Instants, second \in Instants :
       /\ NotEarlier(second, first)
       /\ Served([op |-> "get_current_time_iso", clock |-> <<first, second>>],
                 get_current_time_iso(first, second))

Next ==
  \/ Main
  \/ Call_get_count_objects
  \/ Call_get_objects
  \/ Call_get_object_by_id
  \/ Call_get_custom_fields
  \/ Call_get_changelogs
  \/ Call_create_object
  \/ Call_update_object
  \/ Call_delete_object
  \/ Call_get_current_time_iso
  \/ Reply

Spec == Init /\ [][Next]_vars

TypeOK ==
  /\ phase \in {"loaded", "failed", "serving"}
  /\ outcome.kind \in {"none", "return", "raise"}
  /\ Len(remote) <= 1

(***************************************************************************)
(* Properties.                                                             *)
(***************************************************************************)
CatalogValidated ==
  { "get_count_objects", "get_objects", "get_object_by_id",
    "get_custom_fields", "create_object", "update_object", "delete_object" }

ValidCall(op) ==
  /\ call.op = op
  /\ call.object_type \in DOMAIN NETBOX_OBJECT_TYPES

\* The request and the answer of the single remote call of the invocation.
TheRequest == remote[1].request
TheAnswer == remote[1].answer

\* C1: each of the seven catalog-validated operations, given an object_type
\* that is not a key of the catalog, raises the invalid-object-type error, and
\* the error lists every catalog key exactly once in strictly ascending
\* lexicographic order (get_count_objects included).
C1_InvalidObjectTypeRejected ==
  (call.op \in CatalogValidated
     /\ call.object_type \notin DOMAIN NETBOX_OBJECT_TYPES) =>
    /\ outcome.kind = "raise"
    /\ outcome.error.type = "ValueError"
    /\ outcome.error.head = "Invalid object_type. Must be one of:"
    /\ LET lines == outcome.error.lines
           listed == [i \in 1..Len(lines) |-> SubSeq(lines[i], 3, Len(lines[i]))]
       IN /\ Len(lines) = Cardinality(DOMAIN NETBOX_OBJECT_TYPES)
          /\ \A i \in 1..Len(lines) : SubSeq(lines[i], 1, 2) = <<"-", " ">>
          /\ \A k \in DOMAIN NETBOX_OBJECT_TYPES :
               \E i \in 1..Len(listed) : listed[i] = k
          /\ \A i, j \in 1..Len(listed) :
               i < j => StrLess(listed[i], listed[j])

C1_Witness ==
  /\ call.op = "get_count_objects"
  /\ call.object_type = <<"c","h","a","n","g","e","-","l","o","g","s">>
  /\ outcome.kind = "raise"
  /\ outcome.error.type = "ValueError"
  /\ remote = <<>>

\* C2: for a valid object type and any filter, when the remote count call
\* raises, get_count_objects returns 0 and raises nothing.
C2_CountReturnsZeroOnRemoteError ==
  (ValidCall("get_count_objects") /\ Len(remote) = 1
     /\ TheAnswer.kind = "raise") =>
    outcome = Return(JInt(0))

C2_Witness ==
  /\ ValidCall("get_count_objects")
  /\ Len(remote) = 1
  /\ TheAnswer = Raise([type |-> "ConnectionError"])
  /\ outcome = Return(JInt(0))

\* C3: for a valid object type, when the remote count call returns normally,
\* get_count_objects returns the `count` field of the envelope if it has one,
\* and returns 0 (raising nothing) if the response is malformed or has no
\* `count` key.
C3_CountSoftOnMalformedResponse ==
  (ValidCall("get_count_objects") /\ Len(remote) = 1
     /\ TheAnswer.kind = "return") =>
    LET response == TheAnswer.value
    IN IF response.kind = "dict" /\ STR_count \in DOMAIN response.map
         THEN outcome = Return(response.map[STR_count])
         ELSE outcome = Return(JInt(0))

\* C4: for a valid object type, when the remote get made by get_custom_fields
\* raises, get_custom_fields returns None instead of raising.
C4_CustomFieldsSwallowRemoteError ==
  (ValidCall("get_custom_fields") /\ Len(remote) = 1
     /\ TheAnswer.kind = "raise") =>
    outcome = Return(None)

ProjectedKeys == {STR_id, STR_name, STR_object_types, STR_description}

NotIterable(v) == v.kind \notin {"list", "dict", "str"}

\* An item without one of the four keys; an item that is no mapping has none.
LacksKey(item) ==
  \/ item.kind # "dict"
  \/ \E k \in ProjectedKeys : k \notin DOMAIN item.map

\* C5: for a valid object type, when the remote get returns a value that is
\* not iterable, or a list with an item lacking one of id, name, object_types,
\* description, get_custom_fields returns None and raises nothing.
C5_CustomFieldsSoftOnMalformedResponse ==
  (ValidCall("get_custom_fields") /\ Len(remote) = 1
     /\ TheAnswer.kind = "return"
     /\ LET response == TheAnswer.value
        IN \/ NotIterable(response)
           \/ /\ response.kind = "list"
              /\ \E i \in 1..Len(response.elems) : LacksKey(response.elems[i])) =>
    outcome = Return(None)

C5_Witness ==
  /\ ValidCall("get_custom_fields")
  /\ Len(remote) = 1
  /\ TheAnswer = Return(JList(<<CustomFieldPlain, CustomFieldNoDescription>>))
  /\ outcome = Return(None)

WellFormed(response) ==
  /\ response.kind = "list"
  /\ \A i \in 1..Len(response.elems) : ~LacksKey(response.elems[i])

\* The record the specification asks for: id, name, object_types, description
\* of the item, and its label when the item has one.
ProjectedWithLabel(item) ==
  JDict([k \in DOMAIN item.map \cap (ProjectedKeys \cup {STR_label}) |->
           item.map[k]])

\* C6: for a well-formed remote response, get_custom_fields returns one record
\* per remote item, in the same order, each with the item's id, name,
\* object_types and description (and label when the item provides one) and no
\* other field.
C6_CustomFieldsProjection ==
  (ValidCall("get_custom_fields") /\ Len(remote) = 1
     /\ TheAnswer.kind = "return" /\ WellFormed(TheAnswer.value)) =>
    LET items == TheAnswer.value.elems
    IN outcome = Return(JList([i \in 1..Len(items) |->
                                 ProjectedWithLabel(items[i])]))

\* C7: get_changelogs returns an empty sequence, raising nothing, whenever the
\* remote get returns an empty list or null, and returns a non-empty remote
\* list verbatim.
C7_ChangelogsEmptyOrVerbatim ==
  (call.op = "get_changelogs" /\ Len(remote) = 1
     /\ TheAnswer.kind = "return") =>
    LET response == TheAnswer.value
    IN /\ (response = None \/ response = JList(<<>>)) =>
            outcome = Return(JList(<<>>))
       /\ (response.kind = "list" /\ response.elems # <<>>) =>
            outcome = Return(response)

\* C8: get_changelogs issues one get on the fixed path core/object-changes;
\* with filters None the request is the one issued for filters {} (an empty
\* mapping as params), a non-empty mapping is forwarded unchanged, and the
\* catalog is not consulted (no invalid-object-type error).
C8_ChangelogsRequest ==
  call.op = "get_changelogs" =>
    /\ Len(remote) = 1
    /\ TheRequest.method = "get"
    /\ TheRequest.endpoint = STR_changelog_endpoint
    /\ call.filters = None => TheRequest.params = JDict(<<>>)
    /\ call.filters.kind = "dict" => TheRequest.params = call.filters
    /\ outcome # Raise(InvalidObjectType)

C8_Witness ==
  /\ call.op = "get_changelogs"
  /\ call.filters = None
  /\ Len(remote) = 1
  /\ TheRequest = [method |-> "get", endpoint |-> STR_changelog_endpoint,
                   params |-> JDict(<<>>)]

\* C9: for a valid object type t and any filters f, get_objects issues one get
\* with the catalog path of t and with f exactly as given, and returns the
\* remote response unmodified ("devices" with {"site_id": 5} goes to
\* dcim/devices with {"site_id": 5}).
C9_GetObjectsPassThrough ==
  ValidCall("get_objects") =>
    /\ Len(remote) = 1
    /\ TheRequest = [method |-> "get",
                     endpoint |-> NETBOX_OBJECT_TYPES[call.object_type],
                     params |-> call.filters]
    /\ call.object_type = <<"d","e","v","i","c","e","s">> =>
         TheRequest.endpoint = <<"d","c","i","m","/","d","e","v","i","c","e","s">>
    /\ TheAnswer.kind = "return" => outcome = TheAnswer

C9_Witness ==
  /\ ValidCall("get_objects")
  /\ call.object_type = <<"d","e","v","i","c","e","s">>
  /\ call.filters = JDict(STR_site_id :> JInt(5))
  /\ Len(remote) = 1
  /\ TheRequest.params = JDict(STR_site_id :> JInt(5))
  /\ TheAnswer = Return(JList(<<CustomFieldPlain>>))
  /\ outcome = Return(JList(<<CustomFieldPlain>>))

IsDigit(c) == \E d \in 1..10 : Digits[d] = c

RECURSIVE DecimalValue(_)
DecimalValue(s) ==
  IF s = <<>> THEN 0
  ELSE 10 * DecimalValue(SubSeq(s, 1, Len(s) - 1))
         + ((CHOOSE d \in 1..10 : Digits[d] = s[Len(s)]) - 1)

\* s is a decimal numeral denoting n (with a leading "-" for a negative n).
IsDecimalOf(s, n) ==
  LET digits == IF n < 0 THEN Tail(s) ELSE s
  IN /\ s # <<>>
     /\ n < 0 => s[1] = "-"
     /\ digits # <<>>
     /\ \A i \in 1..Len(digits) : IsDigit(digits[i])
     /\ DecimalValue(digits) = (IF n < 0 THEN 0 - n ELSE n)

\* C10: for a valid object type t and any id n, get_object_by_id issues exactly
\* one get, on the catalog path of t followed by "/" and the decimal numeral of
\* n, passes no filter parameters, and returns the remote result ("racks" with
\* 42 goes to dcim/racks/42).
C10_GetObjectById ==
  ValidCall("get_object_by_id") =>
    LET path == NETBOX_OBJECT_TYPES[call.object_type]
    IN /\ Len(remote) = 1
       /\ TheRequest.method = "get"
       /\ TheRequest.params = Omitted
       /\ Len(TheRequest.endpoint) > Len(path) + 1
       /\ SubSeq(TheRequest.endpoint, 1, Len(path)) = path
       /\ TheRequest.endpoint[Len(path) + 1] = "/"
       /\ IsDecimalOf(SubSeq(TheRequest.endpoint, Len(path) + 2,
                             Len(TheRequest.endpoint)), call.object_id)
       /\ (call.object_type = <<"r","a","c","k","s">> /\ call.object_id = 42) =>
            TheRequest.endpoint = <<"d","c","i","m","/","r","a","c","k","s","/","4","2">>
       /\ TheAnswer.kind = "return" => outcome = TheAnswer

C10_Witness ==
  /\ ValidCall("get_object_by_id")
  /\ call.object_type = <<"r","a","c","k","s">>
  /\ call.object_id = 42
  /\ Len(remote) = 1
  /\ TheRequest.endpoint = <<"d","c","i","m","/","r","a","c","k","s","/","4","2">>
  /\ outcome = Return(CustomFieldPlain)
\* C11: for a valid object type the write operations only delegate:
\* create_object issues one create(path, data), update_object one
\* update(path, id, data), delete_object one delete(path, id), with the catalog
\* path as it is and the data as given, and each returns what the remote call
\* returned ("devices" is created at dcim/devices).
C11_WritesDelegate ==
  /\ ValidCall("create_object") =>
       /\ Len(remote) = 1
       /\ TheRequest = [method |-> "create",
                        endpoint |-> NETBOX_OBJECT_TYPES[call.object_type],
                        data |-> call.data]
       /\ call.object_type = <<"d","e","v","i","c","e","s">> =>
            TheRequest.endpoint = <<"d","c","i","m","/","d","e","v","i","c","e","s">>
       /\ TheAnswer.kind = "return" => outcome = TheAnswer
  /\ ValidCall("update_object") =>
       /\ Len(remote) = 1
       /\ TheRequest = [method |-> "update",
                        endpoint |-> NETBOX_OBJECT_TYPES[call.object_type],
                        id |-> call.object_id, data |-> call.data]
       /\ TheAnswer.kind = "return" => outcome = TheAnswer
  /\ ValidCall("delete_object") =>
       /\ Len(remote) = 1
       /\ TheRequest = [method |-> "delete",
                        endpoint |-> NETBOX_OBJECT_TYPES[call.object_type],
                        id |-> call.object_id]
       /\ TheAnswer.kind = "return" => outcome = TheAnswer

C11_Witness ==
  /\ ValidCall("create_object")
  /\ call.object_type = <<"d","e","v","i","c","e","s">>
  /\ call.data = JDict((STR_name :> JStr(STR_r1)) @@ (STR_site :> JInt(1)))
  /\ Len(remote) = 1
  /\ TheRequest.data = call.data
  /\ TheAnswer.kind = "return"
  /\ TheAnswer.value.kind = "dict"
  /\ outcome = TheAnswer

Propagating ==
  { "get_objects", "get_object_by_id", "create_object", "update_object",
    "delete_object" }

\* C12: for a valid object type, when the remote call raises, get_objects,
\* get_object_by_id, create_object, update_object and delete_object raise that
\* same error; none returns a value in its place.
C12_RemoteFailurePropagates ==
  (call.op \in Propagating /\ call.object_type \in DOMAIN NETBOX_OBJECT_TYPES
     /\ Len(remote) = 1 /\ TheAnswer.kind = "raise") =>
    outcome = TheAnswer

C12_Witness ==
  /\ ValidCall("delete_object")
  /\ Len(remote) = 1
  /\ TheAnswer = Raise([type |-> "HTTPError"])
  /\ outcome = Raise([type |-> "HTTPError"])
\* The date and time-of-day fields written in an ISO-8601 timestamp string.
TimestampFields(s) ==
  [year |-> DecimalValue(SubSeq(s, 1, 4)),
   month |-> DecimalValue(SubSeq(s, 6, 7)),
   day |-> DecimalValue(SubSeq(s, 9, 10)),
   hour |-> DecimalValue(SubSeq(s, 12, 13)),
   minute |-> DecimalValue(SubSeq(s, 15, 16)),
   second |-> DecimalValue(SubSeq(s, 18, 19))]

Denotes(s, t) ==
  TimestampFields(s) = [year |-> t.year, month |-> t.month, day |-> t.day,
                        hour |-> t.hour, minute |-> t.minute,
                        second |-> t.second]

\* C13: get_current_time_iso returns a timestamp that denotes the moment of
\* the call: its date, hour, minute and second are those of a reading of the
\* UTC clock taken during the call, not of an earlier instant.
C13_CurrentTimeIsCallTime ==
  call.op = "get_current_time_iso" =>
    /\ outcome.kind = "return"
    /\ outcome.value.kind = "str"
    /\ \E i \in 1..2 : Denotes(outcome.value.s, call.clock[i])
\* C14: every object_type the get_objects documentation lists as valid is
\* accepted by get_objects: it is a key of the catalog and the call is not
\* rejected with the invalid-object-type error.
C14_DocumentedTypesAccepted ==
  (call.op = "get_objects" /\ call.object_type \in DocumentedObjectTypes) =>
    /\ call.object_type \in DOMAIN NETBOX_OBJECT_TYPES
    /\ outcome # Raise(InvalidObjectType)
\* A setting that is absent or empty.
Missing(setting) == setting = None \/ setting = JStr(<<>>)

SettingsMissing == Missing(env.NETBOX_URL) \/ Missing(env.NETBOX_TOKEN)

C15_States ==
  /\ SettingsMissing =>
       /\ phase # "serving"
       /\ netbox = None
       /\ call.op = "none"
  /\ phase = "failed" =>
       /\ SettingsMissing
       /\ outcome = Raise([type |-> "ValueError"])
  /\ call.op # "none" =>
       /\ phase = "serving"
       /\ netbox.kind = "client"

C15_Steps ==
  netbox' # netbox =>
    /\ phase = "loaded"
    /\ netbox = None
    /\ call.op = "none"
    /\ phase' = "serving"

\* C15: start-up fails fast: with the base URL or the token absent or empty
\* the process raises, the client handle is never created and no operation is
\* served; the handle is assigned only by the start-up step, from None, before
\* serving begins, and no later step changes it; whenever an operation is
\* served the handle is an initialised client.
C15_StartupFailsFast == [](C15_States) /\ [][C15_Steps]_vars

C15_Witness ==
  /\ phase = "failed"
  /\ env.NETBOX_URL = JStr(STR_r1)
  /\ env.NETBOX_TOKEN = JStr(<<>>)
  /\ netbox = None
  /\ outcome = Raise([type |-> "ValueError"])
\* C16: every invocation issues at most one call on the remote client: exactly
\* one for a catalog-validated operation given a valid object type and for
\* every get_changelogs, none for a catalog-validated operation given an
\* object type outside the catalog, none for get_current_time_iso, and none
\* while no operation is being served.
C16_AtMostOneRemoteCall ==
  /\ Len(remote) <= 1
  /\ call.op \in CatalogValidated =>
       Len(remote) = (IF call.object_type \in DOMAIN NETBOX_OBJECT_TYPES
                        THEN 1 ELSE 0)
  /\ call.op = "get_changelogs" => Len(remote) = 1
  /\ call.op = "get_current_time_iso" => Len(remote) = 0
  /\ call.op = "none" => Len(remote) = 0

C16_Witness ==
  /\ call.op = "get_custom_fields"
  /\ call.object_type = <<"d","c","i","m","/","d","e","v","i","c","e","s">>
  /\ remote = <<>>
  /\ outcome = Raise(InvalidObjectType)
====
